---------------------------- MODULE Spec2Model ----------------------------
(***************************************************************************)
(* GotMail: the live-connection registry (EmailConsumer), the dispatch     *)
(* pipeline (notify_recipients) and the auto-reply engine                  *)
(* (handle_auto_reply), modelled as one state machine.                     *)
(***************************************************************************)
EXTENDS Integers, Sequences, FiniteSets, Bags, TLC

(***************************************************************************)
(* Bounds of the model.                                                    *)
(***************************************************************************)
MaxConns == 3
MaxTokens == 3
MaxTicks == 1
MaxSends == 1
MaxAddrs == 3
MaxFailures == 1
MaxLive == 1
MaxCodes == 2
MaxCodeTicks == 1

(***************************************************************************)
(* Program constants.                                                      *)
(***************************************************************************)
SessionDays == 30
CodeMinutes == 10
\* timedelta(days=30), in minutes
SessionLifetime == SessionDays * 24 * 60

\* rows of the User table; user 3 has no UserSettings row in Init
Users == {1, 2, 3}
\* channel names of the consumers
Conns == 1..MaxConns
\* the null reference (None): no user id, list or token is 0
None == 0
\* what a client may present as token: every uuid ever drawn, and a string that is none
Tokens == 1..(MaxTokens + 1)
\* what a client may present as verification code: every code ever drawn, one
\* that was never drawn, and None when the request carries no code
Codes == 0..(MaxCodes + 1)

VARIABLES
    \* ---- User rows: session_token / session_expiry, and the clock
    session_token,       \* [Users -> token or None]
    session_expiry,      \* [Users -> minute of expiry or None]
    now,                 \* timezone.now(), in minutes
    next_token,          \* the next uuid4 that will be drawn
    \* ---- two-factor login: UserProfile.two_factor_enabled and the code of the User row
    two_factor_enabled,        \* [Users -> BOOLEAN]
    verification_code,         \* [Users -> code or None]
    verification_code_expires, \* [Users -> minute of expiry or None]
    next_code,                 \* the next verification code that will be drawn
    auth_response,             \* the last answer of the login, 2FA and logout views
    \* ---- EmailConsumer instances
    pc,                  \* [Conns -> position of the consumer]
    token,               \* [Conns -> self.token]
    cuser,               \* [Conns -> self.user (id or None)]
    stale,               \* [Conns -> the list object stale_connections refers to]
    idx,                 \* [Conns -> position of the for loop over stale_connections]
    \* ---- EmailConsumer.active_connections and the list objects it holds
    active_connections,  \* [Users -> list object id or None (key absent)]
    lists,               \* [Conns -> Seq(Conns)]: the list created by each connect
    \* ---- channel layer
    groups,              \* [Users -> SUBSET Conns]: members of user_{id}_emails
    received,            \* [Conns -> bag of the notifications handed to the channel]
    \* ---- database tables
    settings,            \* [Users -> UserSettings row, exists = FALSE when there is none]
    emails,              \* Seq of Email rows, the id is the position
    notifications,       \* bag of Notification rows
    \* ---- the send request in flight and what the server has answered and printed
    dispatch,            \* position of notify_recipients in its loop
    pushes,              \* bag of the group_send calls that went through
    responses,           \* Seq of [email, status] answers of SendEmailView
    errlog               \* set of errors printed by the except branches

wsvars == <<pc, token, cuser, stale, idx, active_connections,
            lists, groups, received>>
tfavars == <<two_factor_enabled, verification_code, verification_code_expires,
             next_code, auth_response>>
sessvars == <<session_token, session_expiry, now, next_token, tfavars>>
mailvars == <<emails, notifications, dispatch, pushes, responses, errlog>>
vars == <<sessvars, wsvars, settings, mailvars>>

(***************************************************************************)
(* Helpers on sequences.                                                   *)
(***************************************************************************)
Range(s) == {s[i] : i \in 1..Len(s)}

RECURSIVE RemoveFirst(_, _)
\* list.remove(x): drops the first occurrence of x
RemoveFirst(s, x) ==
    IF s = <<>> THEN <<>>
    ELSE IF Head(s) = x THEN Tail(s)
    ELSE <<Head(s)>> \o RemoveFirst(Tail(s), x)

(***************************************************************************)
(* Session lookup shared by the consumer and the HTTP authentication.      *)
(***************************************************************************)
\* the lookup without the session_expiry__gt filter
get_user_from_token_noexpiry(tok) ==
    IF \E u \in Users : session_token[u] = tok
    THEN CHOOSE u \in Users : session_token[u] = tok
    ELSE None

\* User.objects.get(session_token=token, session_expiry__gt=now) or None
get_user_from_token(tok) ==
    IF \E u \in Users : session_token[u] = tok /\ session_expiry[u] > now
    THEN CHOOSE u \in Users : session_token[u] = tok /\ session_expiry[u] > now
    ELSE None

\* the list registered for user u, as active_connections.get(u, [])
registry(u) ==
    IF active_connections[u] = None THEN <<>> ELSE lists[active_connections[u]]

\* hasattr(self, "group_name")
has_group_name(c) == cuser[c] # None /\ pc[c] \notin {"pending", "authed"}

(***************************************************************************)
(* EmailConsumer.connect, cut at its suspension points (each await).  The  *)
(* channel layer carries out a group_add / group_discard when it is        *)
(* called; the coroutine resumes in a later step.                          *)
(***************************************************************************)
\* self.token = ...; self.user = await self.get_user_from_token(self.token)
ConnectAuth(c, tok) ==
    /\ pc[c] = "pending"
    /\ token' = [token EXCEPT ![c] = tok]
    /\ cuser' = [cuser EXCEPT ![c] = get_user_from_token(tok)]
    /\ pc' = [pc EXCEPT ![c] = "authed"]
    /\ UNCHANGED <<stale, idx, active_connections, lists, groups>>

\* the connect subscribing to one group shared by all users
ResetAndAdd_shared_group(c) ==
    /\ active_connections' = [active_connections EXCEPT ![cuser[c]] = c]
    /\ lists' = [lists EXCEPT ![c] = <<>>]
    /\ groups' = [groups EXCEPT ![1] = @ \cup {c}]
    /\ pc' = [pc EXCEPT ![c] = "adding"]

\* self.active_connections[self.user.id] = []; await group_add(group_name, channel_name)
ResetAndAdd(c) ==
    /\ active_connections' = [active_connections EXCEPT ![cuser[c]] = c]
    /\ lists' = [lists EXCEPT ![c] = <<>>]
    /\ groups' = [groups EXCEPT ![cuser[c]] = @ \cup {c}]
    /\ pc' = [pc EXCEPT ![c] = "adding"]

\* if self.user: stale_connections = ...; the loop reaches its first await; else: close()
ConnectBegin(c) ==
    /\ pc[c] = "authed"
    /\ IF cuser[c] = None
       THEN /\ pc' = [pc EXCEPT ![c] = "rejected"]
            /\ UNCHANGED <<stale, idx, active_connections, lists, groups>>
       ELSE /\ stale' = [stale EXCEPT ![c] = active_connections[cuser[c]]]
            /\ IF Len(registry(cuser[c])) >= 1
               THEN /\ idx' = [idx EXCEPT ![c] = 1]
                    /\ groups' = [groups EXCEPT ![cuser[c]] = @ \ {registry(cuser[c])[1]}]
                    /\ pc' = [pc EXCEPT ![c] = "discarding"]
                    /\ UNCHANGED <<active_connections, lists>>
               ELSE /\ ResetAndAdd(c)
                    /\ UNCHANGED idx
    /\ UNCHANGED <<token, cuser>>

\* a group_discard of the loop returns: the next element of the list object the
\* loop iterates is discarded, or the loop ends and the entry is replaced
ConnectEvictNext(c) ==
    /\ pc[c] = "discarding"
    /\ IF idx[c] + 1 <= Len(lists[stale[c]])
       THEN /\ idx' = [idx EXCEPT ![c] = idx[c] + 1]
            /\ groups' = [groups EXCEPT ![cuser[c]] = @ \ {lists[stale[c]][idx[c] + 1]}]
            /\ UNCHANGED <<pc, active_connections, lists>>
       ELSE /\ ResetAndAdd(c)
            /\ UNCHANGED idx
    /\ UNCHANGED <<token, cuser, stale>>

\* group_add returns: self.active_connections[self.user.id].append(channel_name); accept()
\* (KeyError when the key was deleted meanwhile: the consumer dies unaccepted)
ConnectRegister(c) ==
    /\ pc[c] = "adding"
    /\ IF active_connections[cuser[c]] = None
       THEN /\ pc' = [pc EXCEPT ![c] = "crashed"]
            /\ UNCHANGED lists
       ELSE /\ lists' = [lists EXCEPT ![active_connections[cuser[c]]] = Append(@, c)]
            /\ pc' = [pc EXCEPT ![c] = "open"]
    /\ UNCHANGED <<token, cuser, stale, idx, active_connections, groups>>

(***************************************************************************)
(* EmailConsumer.disconnect.                                               *)
(***************************************************************************)
\* if hasattr(self, "group_name"): await group_discard(group_name, channel_name)
DisconnectBegin(c) ==
    /\ pc[c] \in {"open", "rejected", "closed"}
    /\ IF has_group_name(c)
       THEN /\ groups' = [groups EXCEPT ![cuser[c]] = @ \ {c}]
            /\ pc' = [pc EXCEPT ![c] = "leaving"]
       ELSE /\ pc' = [pc EXCEPT ![c] = "closed"]
            /\ UNCHANGED groups
    /\ UNCHANGED <<token, cuser, stale, idx, active_connections, lists>>

\* disconnect without the del of the emptied key
DisconnectFinish_keep_key(c) ==
    /\ pc[c] = "leaving"
    /\ IF active_connections[cuser[c]] = None \/ c \notin Range(registry(cuser[c]))
       THEN UNCHANGED lists
       ELSE lists' = [lists EXCEPT ![active_connections[cuser[c]]] = RemoveFirst(@, c)]
    /\ UNCHANGED active_connections
    /\ pc' = [pc EXCEPT ![c] = "closed"]
    /\ UNCHANGED <<token, cuser, stale, idx, groups>>

\* .remove(self.channel_name), del of the emptied key; KeyError/ValueError are swallowed
DisconnectFinish(c) ==
    /\ pc[c] = "leaving"
    /\ IF active_connections[cuser[c]] = None \/ c \notin Range(registry(cuser[c]))
       THEN UNCHANGED <<active_connections, lists>>
       ELSE /\ lists' = [lists EXCEPT ![active_connections[cuser[c]]] = RemoveFirst(@, c)]
            /\ active_connections' =
                   IF RemoveFirst(registry(cuser[c]), c) = <<>>
                   THEN [active_connections EXCEPT ![cuser[c]] = None]
                   ELSE active_connections
    /\ pc' = [pc EXCEPT ![c] = "closed"]
    /\ UNCHANGED <<token, cuser, stale, idx, groups>>

(***************************************************************************)
(* Sessions: login with and without 2FA, 2FA verification, logout, and the *)
(* passing of time.                                                        *)
(***************************************************************************)
\* the Response of a view: what was asked, the status and the session_token returned
Answer(op, u, presented, status, tok) ==
    [op |-> op, user |-> u, presented |-> presented, status |-> status, token |-> tok]

NoAnswer == Answer("none", None, None, 0, None)

\* User.generate_session_token: a fresh uuid4 and thirty days of validity
generate_session_token(u) ==
    /\ next_token <= MaxTokens
    /\ session_token' = [session_token EXCEPT ![u] = next_token]
    /\ session_expiry' = [session_expiry EXCEPT ![u] = now + SessionLifetime]
    /\ next_token' = next_token + 1

\* User.generate_verification_code: a fresh code and ten minutes of validity
generate_verification_code(u) ==
    /\ next_code <= MaxCodes
    /\ verification_code' = [verification_code EXCEPT ![u] = next_code]
    /\ verification_code_expires' =
           [verification_code_expires EXCEPT ![u] = now + CodeMinutes]
    /\ next_code' = next_code + 1

\* a login that hands out a session token whether or not 2FA is enabled
Login_skip_2fa(u, ok, mail_ok) ==
    IF ~ok
    THEN /\ auth_response' = Answer("login", u, None, 400, None)
         /\ UNCHANGED <<session_token, session_expiry, now, next_token,
                        two_factor_enabled, verification_code,
                        verification_code_expires, next_code>>
    ELSE /\ generate_session_token(u)
         /\ auth_response' = Answer("login", u, None, 200, next_token)
         /\ UNCHANGED <<now, two_factor_enabled, verification_code,
                        verification_code_expires, next_code>>

\* LoginView.post: ok says whether the credentials validate, mail_ok whether
\* the 2FA email could be sent
Login(u, ok, mail_ok) ==
    IF ~ok
    THEN /\ auth_response' = Answer("login", u, None, 400, None)
         /\ UNCHANGED <<session_token, session_expiry, now, next_token,
                        two_factor_enabled, verification_code,
                        verification_code_expires, next_code>>
    ELSE IF two_factor_enabled[u]
    THEN /\ generate_verification_code(u)
         /\ auth_response' =
                Answer("login", u, None, IF mail_ok THEN 206 ELSE 500, None)
         /\ UNCHANGED <<session_token, session_expiry, now, next_token,
                        two_factor_enabled>>
    ELSE /\ generate_session_token(u)
         /\ auth_response' = Answer("login", u, None, 200, next_token)
         /\ UNCHANGED <<now, two_factor_enabled, verification_code,
                        verification_code_expires, next_code>>

\* the test of Verify2FAView.post on the code presented
CodeValid(u, code) ==
    /\ verification_code[u] = code
    /\ verification_code_expires[u] # None
    /\ verification_code_expires[u] > now

\* a verification that leaves the code on the row
Verify2FA_keep_code(u, code) ==
    IF CodeValid(u, code)
    THEN /\ generate_session_token(u)
         /\ auth_response' = Answer("verify", u, code, 200, next_token)
         /\ UNCHANGED <<now, two_factor_enabled, verification_code,
                        verification_code_expires, next_code>>
    ELSE /\ auth_response' = Answer("verify", u, code, 400, None)
         /\ UNCHANGED <<session_token, session_expiry, now, next_token,
                        two_factor_enabled, verification_code,
                        verification_code_expires, next_code>>

\* Verify2FAView.post for the phone number of user u
Verify2FA(u, code) ==
    IF CodeValid(u, code)
    THEN /\ verification_code' = [verification_code EXCEPT ![u] = None]
         /\ verification_code_expires' = [verification_code_expires EXCEPT ![u] = None]
         /\ generate_session_token(u)
         /\ auth_response' = Answer("verify", u, code, 200, next_token)
         /\ UNCHANGED <<now, two_factor_enabled, next_code>>
    ELSE /\ auth_response' = Answer("verify", u, code, 400, None)
         /\ UNCHANGED <<session_token, session_expiry, now, next_token,
                        two_factor_enabled, verification_code,
                        verification_code_expires, next_code>>

\* Enable2FAView.post behind SessionTokenAuthentication
Enable2FA(tok) ==
    IF get_user_from_token(tok) = None
    THEN /\ auth_response' = Answer("enable_2fa", None, tok, 403, None)
         /\ UNCHANGED <<session_token, session_expiry, now, next_token,
                        two_factor_enabled, verification_code,
                        verification_code_expires, next_code>>
    ELSE /\ two_factor_enabled' =
                [two_factor_enabled EXCEPT ![get_user_from_token(tok)] = TRUE]
         /\ auth_response' =
                Answer("enable_2fa", get_user_from_token(tok), tok, 200, None)
         /\ UNCHANGED <<session_token, session_expiry, now, next_token,
                        verification_code, verification_code_expires, next_code>>

\* a logout that ends the Django session only
Logout_session_only(tok) ==
    /\ get_user_from_token(tok) # None
    /\ UNCHANGED <<session_token, session_expiry>>
    /\ UNCHANGED <<now, next_token, two_factor_enabled, verification_code,
                   verification_code_expires, next_code>>

\* LogoutView.post: the row holding the live token loses token and expiry
Logout(tok) ==
    /\ get_user_from_token(tok) # None
    /\ session_token' = [session_token EXCEPT ![get_user_from_token(tok)] = None]
    /\ session_expiry' = [session_expiry EXCEPT ![get_user_from_token(tok)] = None]
    /\ UNCHANGED <<now, next_token, two_factor_enabled, verification_code,
                   verification_code_expires, next_code>>

\* LogoutView.post with its answer, whether or not the token is that of a row
LogoutView_post(tok) ==
    /\ \/ Logout(tok)
       \/ /\ get_user_from_token(tok) = None
          /\ UNCHANGED <<session_token, session_expiry, now, next_token,
                         two_factor_enabled, verification_code,
                         verification_code_expires, next_code>>
    /\ auth_response' = Answer("logout", None, tok, 200, None)

\* timezone.now() advances by one session lifetime
Tick ==
    /\ now < MaxTicks * SessionLifetime
    /\ now' = now + SessionLifetime
    /\ UNCHANGED <<session_token, session_expiry, next_token, tfavars>>

\* timezone.now() advances by the lifetime of a verification code
TickCode ==
    /\ now % SessionLifetime < MaxCodeTicks * CodeMinutes
    /\ now' = now + CodeMinutes
    /\ UNCHANGED <<session_token, session_expiry, next_token, tfavars>>

(***************************************************************************)
(* Dispatch pipeline: CreateEmailSerializer.create, notify_recipients and  *)
(* handle_auto_reply.  The stores are passed along as one record           *)
(* [emails, notifications, pushes, received, errlog].                      *)
(***************************************************************************)
\* the points of one loop iteration at which the store or the channel layer may raise
FailKinds == {"none", "notif", "push", "ar_email", "ar_set", "ar_notif", "ar_push"}
\* the points before the loop at which notify_recipients may raise
PreludeFails == {"none", "serialize", "layer"}

NullMessage == "NULL"
Subject == <<"Hi">>
Idle == [active |-> FALSE, email |-> None, todo |-> EmptyBag]

\* f'[{{"insert": "{text}\\n"}}]'
plain_text_to_quill_delta(text) == <<"[{\"insert\": \"", text, "\\n\"}]">>

\* the bag with one copy of x
One(x) == SetToBag({x})

\* an audience that always includes the sender
AudienceWithSender(e) == SetToBag(e.recipients \cup e.cc \cup e.bcc \cup {e.sender})

\* what the loop would iterate if the three relations were concatenated as lists
AudienceNoDedup(e) == SetToBag(e.recipients) (+) SetToBag(e.cc) (+) SetToBag(e.bcc)

\* recipients = set(email.recipients.all()); .update(email.cc.all()); .update(email.bcc.all())
Audience(e) == SetToBag(e.recipients \cup e.cc \cup e.bcc)

\* a publish that hands the event to every subscribed connection of every user
group_send_broadcast(st, u, e, n) ==
    [st EXCEPT !.pushes = @ (+) One([group |-> u, email |-> e, notification |-> n]),
               !.received = [c \in Conns |->
                                IF \E v \in Users : c \in groups[v]
                                THEN @[c] (+) One(n) ELSE @[c]]]

\* async_to_sync(channel_layer.group_send)(f"user_{u}_emails", message)
group_send(st, u, e, n) ==
    [st EXCEPT !.pushes = @ (+) One([group |-> u, email |-> e, notification |-> n]),
               !.received = [c \in Conns |->
                                IF c \in groups[u] THEN @[c] (+) One(n) ELSE @[c]]]

\* the row Notification.objects.create(user=u, message=..., related_email=e,
\* notification_type="email") inserts
NewNotification(u, e, kind, from) ==
    [user |-> u, related_email |-> e, is_read |-> FALSE,
     notification_type |-> "email", message |-> <<kind, from>>]

CreateNotification(st, n) == [st EXCEPT !.notifications = @ (+) One(n)]

\* an except branch that also takes back the email being dispatched
LogError_rollback(st, e, u, where) ==
    [st EXCEPT !.errlog = @ \cup {[email |-> e, user |-> u, where |-> where]},
               !.emails = SubSeq(@, 1, e - 1)]

\* print(f"Error ...: {e}") of an except branch
LogError(st, e, u, where) ==
    [st EXCEPT !.errlog = @ \cup {[email |-> e, user |-> u, where |-> where]}]

\* the Email row handle_auto_reply creates, before recipients.set
AutoReplyEmail(st, e, r) ==
    [sender |-> r, recipients |-> {}, cc |-> {}, bcc |-> {},
     subject |-> <<"Re: ">> \o st.emails[e].subject,
     body |-> plain_text_to_quill_delta(settings[r].auto_reply_message),
     is_auto_replied |-> TRUE, reply_to |-> e]

\* the auto-reply addressed to the member who sends it
AutoReplyTarget_recipient(st, e, r) == r

\* email.sender: the one recipient of the auto-reply, the owner of its
\* notification and the user whose group receives the push
AutoReplyTarget(st, e, r) == st.emails[e].sender

\* the body of "if user_settings.auto_reply_enabled:": the auto-reply email, its
\* recipients, its notification and the push to the sender; fk is where it raises
SendAutoReply(st, e, r, fk) ==
    IF fk = "ar_email" THEN LogError(st, e, r, fk)
    ELSE
      LET s1 == [st EXCEPT !.emails = Append(@, AutoReplyEmail(st, e, r))]
          a  == Len(s1.emails)
          to == AutoReplyTarget(st, e, r)
          n  == NewNotification(to, a, "auto_reply", r)
      IN IF fk = "ar_set" THEN LogError(s1, e, r, fk)
         ELSE
           LET s2 == [s1 EXCEPT !.emails[a].recipients = {to}]
           IN IF fk = "ar_notif" THEN LogError(s2, e, r, fk)
              ELSE IF fk = "ar_push" THEN LogError(CreateNotification(s2, n), e, r, fk)
              ELSE group_send(CreateNotification(s2, n), to, a, n)

\* handle_auto_reply without the test of auto_reply_enabled
handle_auto_reply_ignore_enabled(st, e, r, fk) ==
    IF st.emails[e].is_auto_replied THEN st
    ELSE IF ~settings[r].exists THEN LogError(st, e, r, "no_settings")
    ELSE SendAutoReply(st, e, r, fk)

\* handle_auto_reply without the test of is_auto_replied, dispatching its auto-reply
handle_auto_reply_reenter(st, e, r, fk) ==
    IF ~settings[r].exists THEN LogError(st, e, r, "no_settings")
    ELSE IF ~settings[r].auto_reply_enabled THEN st
    ELSE LET s1 == SendAutoReply(st, e, r, fk)
             back == st.emails[e].sender
         IN IF Len(s1.emails) > Len(st.emails) /\ settings[back].exists
               /\ settings[back].auto_reply_enabled
            THEN SendAutoReply(s1, Len(s1.emails), back, fk)
            ELSE s1

\* handle_auto_reply(email, recipient)
handle_auto_reply(st, e, r, fk) ==
    IF st.emails[e].is_auto_replied THEN st
    ELSE IF ~settings[r].exists THEN LogError(st, e, r, "no_settings")
    ELSE IF ~settings[r].auto_reply_enabled THEN st
    ELSE SendAutoReply(st, e, r, fk)

\* the iteration with the auto-reply outside the try: it runs after a failed push
notify_member_auto_reply_anyway(st, e, m, fk) ==
    LET n == NewNotification(m, e, "new_email", st.emails[e].sender)
    IN IF fk = "notif" THEN LogError(st, e, m, fk)
       ELSE IF fk = "push"
            THEN handle_auto_reply(LogError(CreateNotification(st, n), e, m, fk),
                                   e, m, "none")
       ELSE handle_auto_reply(group_send(CreateNotification(st, n), m, e, n), e, m, fk)

\* the iteration publishing the event before it stores the notification
notify_member_push_first(st, e, m, fk) ==
    LET n == NewNotification(m, e, "new_email", st.emails[e].sender)
    IN IF fk = "push" THEN LogError(st, e, m, fk)
       ELSE IF fk = "notif" THEN LogError(group_send(st, m, e, n), e, m, fk)
       ELSE handle_auto_reply(CreateNotification(group_send(st, m, e, n), n), e, m, fk)

\* the try block of one iteration of the loop of notify_recipients, for recipient m
notify_member(st, e, m, fk) ==
    LET n == NewNotification(m, e, "new_email", st.emails[e].sender)
    IN IF fk = "notif" THEN LogError(st, e, m, fk)
       ELSE IF fk = "push" THEN LogError(CreateNotification(st, n), e, m, fk)
       ELSE handle_auto_reply(group_send(CreateNotification(st, n), m, e, n), e, m, fk)

Stores == [emails |-> emails, notifications |-> notifications, pushes |-> pushes,
           received |-> received, errlog |-> errlog]

\* SessionTokenAuthentication.authenticate succeeds for u with some token
Authenticated(u) == \E tok \in Tokens : get_user_from_token(tok) = u

\* a send that stores the email flagged as auto-reply
NewEmail_flagged(sender, rec, cc, bcc, reply_to) ==
    [sender |-> sender, recipients |-> rec, cc |-> cc, bcc |-> bcc,
     subject |-> Subject, body |-> <<"text">>,
     is_auto_replied |-> TRUE, reply_to |-> reply_to]

\* the Email row CreateEmailSerializer.create inserts, relations set
NewEmail(sender, rec, cc, bcc, reply_to) ==
    [sender |-> sender, recipients |-> rec, cc |-> cc, bcc |-> bcc,
     subject |-> Subject, body |-> <<"text">>,
     is_auto_replied |-> FALSE, reply_to |-> reply_to]

\* SendEmailView.create up to the start of the loop of notify_recipients
SendEmail(sender, rec, cc, bcc, reply_to, pf) ==
    /\ ~dispatch.active
    /\ Authenticated(sender)
    /\ IF rec = {}
       THEN \* "At least one recipient is required."
            /\ responses' = Append(responses,
                   [email |-> None, status |-> 400,
                    request |-> [recipients |-> rec, cc |-> cc, bcc |-> bcc]])
            /\ UNCHANGED <<emails, dispatch>>
       ELSE /\ emails' = Append(emails, NewEmail(sender, rec, cc, bcc, reply_to))
            /\ IF pf # "none"
               THEN \* EmailSerializer(email).data or get_channel_layer() raises
                    /\ responses' = Append(responses,
                           [email |-> Len(emails) + 1, status |-> 500])
                    /\ UNCHANGED dispatch
               ELSE /\ dispatch' = [active |-> TRUE, email |-> Len(emails) + 1,
                           todo |-> Audience(NewEmail(sender, rec, cc, bcc, reply_to))]
                    /\ UNCHANGED responses
    /\ UNCHANGED <<sessvars, wsvars, settings, notifications, pushes, errlog>>

\* the loop ended by a failure of the auto-reply of the member
AfterMember_auto_reply_raises(m, fk) ==
    IF dispatch.todo = One(m) \/ fk \in {"ar_email", "ar_set", "ar_notif", "ar_push"}
       \/ ~settings[m].exists
    THEN /\ dispatch' = Idle
         /\ responses' = Append(responses,
                [email |-> dispatch.email,
                 status |-> IF dispatch.todo = One(m) THEN 201 ELSE 500])
    ELSE /\ dispatch' = [dispatch EXCEPT !.todo = @ (-) One(m)]
         /\ UNCHANGED responses

\* the loop without its try/except: a failed iteration ends the request
AfterMember_propagate(m, fk) ==
    IF dispatch.todo = One(m) \/ fk \in {"notif", "push"}
    THEN /\ dispatch' = Idle
         /\ responses' = Append(responses,
                [email |-> dispatch.email,
                 status |-> IF fk \in {"notif", "push"} THEN 500 ELSE 201])
    ELSE /\ dispatch' = [dispatch EXCEPT !.todo = @ (-) One(m)]
         /\ UNCHANGED responses

\* "except Exception: print(...)" and the end of the iteration: the loop goes on
\* a loop that leaves the member it handled in the audience
AfterMember_again(m, fk) ==
    UNCHANGED <<dispatch, responses>>

\* with the next recipient, or ends, create returns the email and the view answers 201
AfterMember(m, fk) ==
    IF dispatch.todo = One(m)
    THEN /\ dispatch' = Idle
         /\ responses' = Append(responses, [email |-> dispatch.email, status |-> 201])
    ELSE /\ dispatch' = [dispatch EXCEPT !.todo = @ (-) One(m)]
         /\ UNCHANGED responses

\* the next iteration of "for recipient in recipients", in whatever order the set yields
NotifyMember(m, fk) ==
    /\ dispatch.active
    /\ BagIn(m, dispatch.todo)
    /\ LET st == notify_member(Stores, dispatch.email, m, fk)
       IN /\ emails' = st.emails
          /\ notifications' = st.notifications
          /\ pushes' = st.pushes
          /\ received' = st.received
          /\ errlog' = st.errlog
    /\ AfterMember(m, fk)
    /\ UNCHANGED <<sessvars, pc, token, cuser, stale, idx,
                   active_connections, lists, groups, settings>>

(***************************************************************************)
(* AutoReplySettingsView.                                                  *)
(***************************************************************************)
\* patch: get_or_create the row, flip auto_reply_enabled, save
ToggleAutoReply(u) ==
    /\ Authenticated(u)
    /\ settings' = [settings EXCEPT ![u] =
           [exists |-> TRUE, auto_reply_enabled |-> ~settings[u].auto_reply_enabled,
            auto_reply_message |-> settings[u].auto_reply_message]]
    /\ UNCHANGED <<sessvars, wsvars, mailvars>>

\* what a client may send as body of PUT user/auto_rep/: each field is optional,
\* and a field the body lacks is written here as FALSE or ""
AutoReplyPayloads ==
    {d \in [has_enabled : BOOLEAN, auto_reply_enabled : BOOLEAN,
            has_message : BOOLEAN, auto_reply_message : {"", "Away"}] :
        /\ ~d.has_enabled => ~d.auto_reply_enabled
        /\ ~d.has_message => d.auto_reply_message = ""}

\* AutoReplySettingsSerializer.validate on the fields the request carries
validate(data) ==
    ~(/\ data.has_enabled /\ data.auto_reply_enabled
      /\ (~data.has_message \/ data.auto_reply_message = ""))

\* AutoReplySettingsView.put: handle_settings_update with partial=True
UpdateAutoReply(u, data) ==
    /\ Authenticated(u)
    /\ settings' = [settings EXCEPT ![u] =
           IF validate(data)
           THEN [exists |-> TRUE,
                 auto_reply_enabled |->
                     IF data.has_enabled THEN data.auto_reply_enabled
                     ELSE settings[u].auto_reply_enabled,
                 auto_reply_message |->
                     IF data.has_message THEN data.auto_reply_message
                     ELSE settings[u].auto_reply_message]
           ELSE [settings[u] EXCEPT !.exists = TRUE]]
    /\ UNCHANGED <<sessvars, wsvars, mailvars>>

(***************************************************************************)
(* NotificationDetailView (RetrieveUpdateDestroyAPIView): PUT/PATCH and    *)
(* DELETE of user/notifications/<pk>/.  A row is named by its content.     *)
(***************************************************************************)
\* what a client may send as body of PUT/PATCH
NotificationPayloads == [is_read : BOOLEAN, message : {<<"forged">>}]

\* NotificationSerializer.update: message, created_at, notification_type and
\* related_email are read-only, user is no field; is_read is written
UpdatedNotification(n, data) == [n EXCEPT !.is_read = data.is_read]

\* get_queryset: Notification.objects.filter(user=self.request.user)
OwnNotifications(u) == {n \in BagToSet(notifications) : n.user = u}

\* PUT/PATCH: get_object on the requester's rows (404 otherwise), serializer.save()
NotificationUpdate(u, n, data) ==
    /\ Authenticated(u)
    /\ BagIn(n, notifications)
    /\ notifications' =
           IF n \in OwnNotifications(u)
           THEN (notifications (-) One(n)) (+) One(UpdatedNotification(n, data))
           ELSE notifications
    /\ UNCHANGED <<sessvars, wsvars, settings, emails, dispatch, pushes,
                   responses, errlog>>

\* DELETE: get_object on the requester's rows (404 otherwise), instance.delete()
NotificationDestroy(u, n) ==
    /\ Authenticated(u)
    /\ BagIn(n, notifications)
    /\ notifications' =
           IF n \in OwnNotifications(u)
           THEN notifications (-) One(n)
           ELSE notifications
    /\ UNCHANGED <<sessvars, wsvars, settings, emails, dispatch, pushes,
                   responses, errlog>>

(***************************************************************************)
(* Initial state and specifications.                                       *)
(***************************************************************************)
Init ==
    /\ session_token = [u \in Users |-> IF u = 3 THEN None ELSE u]
    /\ session_expiry = [u \in Users |-> IF u = 3 THEN None ELSE SessionLifetime]
    /\ now = 0
    /\ next_token = 3
    /\ two_factor_enabled = [u \in Users |-> FALSE]
    /\ verification_code = [u \in Users |-> None]
    /\ verification_code_expires = [u \in Users |-> None]
    /\ next_code = 1
    /\ auth_response = NoAnswer
    /\ pc = [c \in Conns |-> "pending"]
    /\ token = [c \in Conns |-> None]
    /\ cuser = [c \in Conns |-> None]
    /\ stale = [c \in Conns |-> None]
    /\ idx = [c \in Conns |-> 0]
    /\ active_connections = [u \in Users |-> None]
    /\ lists = [c \in Conns |-> <<>>]
    /\ groups = [u \in Users |-> {}]
    /\ received = [c \in Conns |-> EmptyBag]
    /\ settings = [u \in Users |->
           [exists |-> u # 3, auto_reply_enabled |-> u # 3,
            auto_reply_message |-> IF u = 3 THEN NullMessage ELSE "Away"]]
    /\ emails = <<>>
    /\ notifications = EmptyBag
    /\ dispatch = Idle
    /\ pushes = EmptyBag
    /\ responses = <<>>
    /\ errlog = {}

\* addresses (rows of the three many-to-many tables) the stored emails hold
RECURSIVE AddrCount(_)
AddrCount(es) ==
    IF es = <<>> THEN 0
    ELSE Cardinality(Head(es).recipients) + Cardinality(Head(es).cc)
         + Cardinality(Head(es).bcc) + AddrCount(Tail(es))

Payloads ==
    {p \in [rec : SUBSET Users, cc : SUBSET Users, bcc : SUBSET Users] :
        Cardinality(p.rec) + Cardinality(p.cc) + Cardinality(p.bcc) <= MaxAddrs}

PayloadSize(p) == Cardinality(p.rec) + Cardinality(p.cc) + Cardinality(p.bcc)

Send ==
    /\ ~dispatch.active
    /\ Len(responses) < MaxSends
    /\ \E sender \in Users, p \in Payloads, pf \in PreludeFails :
        /\ AddrCount(emails) + PayloadSize(p) <= MaxAddrs
        /\ \E reply_to \in {None} \cup (1..Len(emails)) :
            SendEmail(sender, p.rec, p.cc, p.bcc, reply_to, pf)

Notify ==
    /\ dispatch.active
    /\ \E m \in BagToSet(dispatch.todo), fk \in FailKinds :
        /\ fk # "none" => Cardinality(errlog) < MaxFailures
        /\ NotifyMember(m, fk)

Toggle == \E u \in Users : ToggleAutoReply(u)

Put == \E u \in Users, data \in AutoReplyPayloads : UpdateAutoReply(u, data)

Connect ==
    \E c \in Conns :
        /\ \/ \E tok \in Tokens : ConnectAuth(c, tok)
           \/ ConnectBegin(c)
           \/ ConnectEvictNext(c)
           \/ ConnectRegister(c)
        /\ UNCHANGED <<sessvars, received, settings, mailvars>>

Disconnect ==
    \E c \in Conns :
        /\ DisconnectBegin(c) \/ DisconnectFinish(c)
        /\ UNCHANGED <<sessvars, received, settings, mailvars>>

SessionEnd ==
    /\ \/ \E tok \in Tokens : Logout(tok) /\ UNCHANGED auth_response
       \/ Tick
    /\ UNCHANGED <<wsvars, settings, mailvars>>

SessionStart ==
    /\ \E u \in Users, ok \in BOOLEAN, mail_ok \in BOOLEAN : Login(u, ok, mail_ok)
    /\ UNCHANGED <<wsvars, settings, mailvars>>

Verify ==
    /\ \E u \in Users, code \in Codes : Verify2FA(u, code)
    /\ UNCHANGED <<wsvars, settings, mailvars>>

Enable ==
    /\ \E tok \in Tokens : Enable2FA(tok)
    /\ UNCHANGED <<wsvars, settings, mailvars>>

SignOut ==
    /\ \E tok \in Tokens : LogoutView_post(tok)
    /\ UNCHANGED <<wsvars, settings, mailvars>>

Clock ==
    /\ Tick \/ TickCode
    /\ UNCHANGED <<wsvars, settings, mailvars>>

Expire ==
    /\ Tick
    /\ UNCHANGED <<wsvars, settings, mailvars>>

\* connects and disconnects of the clients that are online while mail is sent
Online ==
    \E c \in 1..MaxLive :
        /\ \/ \E tok \in Tokens : ConnectAuth(c, tok)
           \/ ConnectBegin(c)
           \/ ConnectEvictNext(c)
           \/ ConnectRegister(c)
        /\ UNCHANGED <<sessvars, received, settings, mailvars>>

Offline ==
    \E c \in 1..MaxLive :
        /\ DisconnectBegin(c) \/ DisconnectFinish(c)
        /\ UNCHANGED <<sessvars, received, settings, mailvars>>

\* the part of connect that decides on the token presented
Handshake ==
    \E c \in 1..MaxLive :
        /\ \/ \E tok \in Tokens : ConnectAuth(c, tok)
           \/ ConnectBegin(c)
        /\ UNCHANGED <<sessvars, received, settings, mailvars>>

Update ==
    \E u \in Users, n \in BagToSet(notifications), data \in NotificationPayloads :
        NotificationUpdate(u, n, data)

Destroy ==
    \E u \in Users, n \in BagToSet(notifications) : NotificationDestroy(u, n)

NextMail == Send \/ Notify \/ Toggle

NextWs == Connect \/ Disconnect \/ SessionEnd

NextPush == Send \/ Notify \/ Online \/ Offline

NextNotif == Send \/ Notify \/ Update \/ Destroy

NextSettings == Send \/ Notify \/ Toggle \/ Put

NextAuth == SessionStart \/ Verify \/ Enable \/ SignOut \/ Clock

NextSess == SessionStart \/ Verify \/ Enable \/ SignOut \/ Expire \/ Handshake

Next == NextMail \/ NextWs \/ NextAuth \/ NextSess \/ Put \/ Update \/ Destroy

SpecMail == Init /\ [][NextMail]_vars

SpecWs == Init /\ [][NextWs]_vars

SpecPush == Init /\ [][NextPush]_vars

SpecNotif == Init /\ [][NextNotif]_vars

SpecSettings == Init /\ [][NextSettings]_vars

SpecAuth == Init /\ [][NextAuth]_vars

SpecSess == Init /\ [][NextSess]_vars

Spec == Init /\ [][Next]_vars

(***************************************************************************)
(* Properties of the dispatch pipeline (SpecMail).                         *)
(***************************************************************************)
\* the view answered the request that stored email e with this status
Answered(e, code) ==
    \E i \in 1..Len(responses) : responses[i] = [email |-> e, status |-> code]

\* the distinct users addressed by email e
UnionOf(e) == emails[e].recipients \cup emails[e].cc \cup emails[e].bcc

\* notifications in ns owned by u and linked to email e
NotifCount(ns, u, e) ==
    LET S == {n \in BagToSet(ns) : n.user = u /\ n.related_email = e}
    IN BagCardinality([n \in S |-> ns[n]])

\* pushes in ps published to the group of u about email e
PushCount(ps, u, e) ==
    LET S == {x \in BagToSet(ps) : x.group = u /\ x.email = e}
    IN BagCardinality([x \in S |-> ps[x]])

\* no notification creation or push of the dispatch of e failed
NoDeliveryFailure(e) ==
    \A x \in errlog : x.email = e => x.where \notin {"notif", "push"}

\* this step is the loop iteration of the running dispatch for member m
Processes(m) ==
    /\ dispatch.active
    /\ BagIn(m, dispatch.todo)
    /\ dispatch' # dispatch
    /\ dispatch'.todo = dispatch.todo (-) One(m)

\* C1: dispatching an email creates at most one notification per user and none
\* for a user outside recipients, cc and bcc; once the dispatch has ended with no
\* notification or push failure, every distinct user of the union of the three
\* relations owns exactly one notification linked to the email.
C1_OneNotificationPerMember ==
    \A e \in 1..Len(emails) :
        ~emails[e].is_auto_replied =>
            \A u \in Users :
                /\ NotifCount(notifications, u, e) <= 1
                /\ u \notin UnionOf(e) => NotifCount(notifications, u, e) = 0
                /\ (Answered(e, 201) /\ NoDeliveryFailure(e) /\ u \in UnionOf(e))
                       => NotifCount(notifications, u, e) = 1

\* an email to [2] with cc [2, 3] was dispatched: two notifications, not three
C1_Witness ==
    \E e \in 1..Len(emails) :
        /\ emails[e].recipients = {2} /\ emails[e].cc = {2, 3}
        /\ Answered(e, 201) /\ NoDeliveryFailure(e)
        /\ NotifCount(notifications, 2, e) = 1
        /\ NotifCount(notifications, 3, e) = 1
        /\ BagCardinality(notifications) = 2

\* C2: an email flagged is_auto_replied is never the email being dispatched and
\* never the email an auto-reply answers: every auto-reply answers an email that
\* is not itself an auto-reply.
C2_AutoReplyNeverAnswered ==
    /\ dispatch.active => ~emails[dispatch.email].is_auto_replied
    /\ \A i \in 1..Len(emails) :
           emails[i].is_auto_replied =>
               /\ emails[i].reply_to \in 1..Len(emails)
               /\ ~emails[emails[i].reply_to].is_auto_replied

\* user 1, auto-reply enabled, wrote to themself and to user 2, auto-reply
\* enabled: two auto-replies went to user 1 and nothing answered them
C2_Witness ==
    /\ Len(emails) = 3
    /\ emails[1].sender = 1 /\ UnionOf(1) = {1, 2}
    /\ Answered(1, 201)
    /\ emails[2].is_auto_replied /\ emails[3].is_auto_replied
    /\ emails[2].recipients = {1} /\ emails[3].recipients = {1}
    /\ settings[1].auto_reply_enabled /\ settings[2].auto_reply_enabled
    /\ errlog = {}

\* the step for member m stored exactly one auto-reply from m to the sender, one
\* notification owned by the sender linked to it and one push to the sender
AutoReplied(m) ==
    LET e == dispatch.email
        s == emails[e].sender
        a == Len(emails) + 1
    IN /\ Len(emails') = a
       /\ SubSeq(emails', 1, Len(emails)) = emails
       /\ emails'[a].is_auto_replied
       /\ emails'[a].sender = m
       /\ emails'[a].recipients = {s}
       /\ emails'[a].reply_to = e
       /\ NotifCount(notifications', s, a) = 1
       /\ PushCount(pushes', s, a) = 1
       /\ BagCardinality(notifications') = BagCardinality(notifications) + 2
       /\ BagCardinality(pushes') = BagCardinality(pushes) + 2

AutoReplyOn(m) == settings[m].exists /\ settings[m].auto_reply_enabled

Added(old, new) == {x \in BagToSet(new) : CopiesIn(x, new) > CopiesIn(x, old)}

\* C4: the iteration for a member with no settings row or with auto-reply
\* disabled stores no email, and the only notification and push it can add are
\* the member's own for the dispatched email.
C4_NoAutoReplyWhenOff ==
    [][\A m \in Users :
          (Processes(m) /\ ~AutoReplyOn(m)) =>
              /\ emails' = emails
              /\ BagCardinality(notifications') <= BagCardinality(notifications) + 1
              /\ BagCardinality(pushes') <= BagCardinality(pushes) + 1
              /\ \A n \in Added(notifications, notifications') :
                     n.user = m /\ n.related_email = dispatch.email
              /\ \A x \in Added(pushes, pushes') :
                     x.group = m /\ x.email = dispatch.email]_vars

\* an email to user 2, auto-reply disabled, and user 3, no settings row: two
\* notifications, two pushes, one email
C4_Witness ==
    /\ Len(emails) = 1
    /\ UnionOf(1) = {2, 3}
    /\ Answered(1, 201)
    /\ ~settings[2].auto_reply_enabled /\ ~settings[3].exists
    /\ BagCardinality(notifications) = 2
    /\ BagCardinality(pushes) = 2
    /\ errlog = {[email |-> 1, user |-> 3, where |-> "no_settings"]}

\* member m of email e went through its iteration: its notification failed, or
\* it was stored and the push failed, or both were done
Handled(e, m) ==
    \/ /\ [email |-> e, user |-> m, where |-> "notif"] \in errlog
       /\ NotifCount(notifications, m, e) = 0
       /\ PushCount(pushes, m, e) = 0
    \/ /\ [email |-> e, user |-> m, where |-> "push"] \in errlog
       /\ NotifCount(notifications, m, e) = 1
       /\ PushCount(pushes, m, e) = 0
    \/ /\ NotifCount(notifications, m, e) = 1
       /\ PushCount(pushes, m, e) = 1

C8_Done ==
    \A e \in 1..Len(emails) :
        Answered(e, 201) => \A m \in UnionOf(e) : Handled(e, m)

C8_Step ==
    (dispatch.active /\ dispatch' # dispatch) =>
        \E m \in BagToSet(dispatch.todo) :
            /\ dispatch'.todo = dispatch.todo (-) One(m)
            /\ dispatch'.active = (dispatch'.todo # EmptyBag)
            /\ dispatch'.active =>
                   dispatch'.email = dispatch.email /\ responses' = responses
            /\ ~dispatch'.active =>
                   responses' = Append(responses,
                       [email |-> dispatch.email, status |-> 201])

\* C8: an iteration of the loop, failed or not, removes one member from what is
\* left to process and the loop goes on with the others, so that when the
\* request is answered every member of the audience went through its iteration.
C8_FailureIsolated ==
    [][C8_Step]_vars /\ []C8_Done

\* the notification of user 2 failed and user 3 still got a notification and a
\* push, and the request was answered 201
C8_Witness ==
    /\ Len(emails) = 1
    /\ UnionOf(1) = {2, 3}
    /\ Answered(1, 201)
    /\ [email |-> 1, user |-> 2, where |-> "notif"] \in errlog
    /\ NotifCount(notifications, 2, 1) = 0
    /\ NotifCount(notifications, 3, 1) = 1
    /\ PushCount(pushes, 3, 1) = 1

\* C9 as stated: notify_recipients never raises to create: every request that
\* stored an email is answered 201.
C9_NeverRaises ==
    \A i \in 1..Len(responses) :
        responses[i].email # None => responses[i].status = 201

(***************************************************************************)
(* Properties of the connection registry (SpecWs).                         *)
(***************************************************************************)
\* the registry entry of every user
Entries == [u \in Users |-> registry(u)]

\* connection c is in some registry entry
Registered(c) == \E u \in Users : c \in Range(registry(u))

\* the connects of user u that have passed authentication and not yet returned
Connecting(u) ==
    {c \in Conns : cuser[c] = u /\ pc[c] \in {"authed", "discarding", "adding"}}

\* C5 as stated: when connect completes for user u, the registry entry of u
\* holds exactly the new connection and no older open connection is still
\* subscribed to the group of u, so a push to u reaches the new connection only.
C5_EvictsPrior ==
    [][\A c \in Conns :
          (pc[c] = "adding" /\ pc'[c] = "open") =>
              /\ Entries'[cuser[c]] = <<c>>
              /\ \A d \in groups'[cuser[c]] \ {c} : pc'[d] # "open"]_vars

\* C6 as stated: once no connect of user u is in progress, the registry entry of
\* u holds at most one connection and every subscribed connection is in it.
C6_ConnectAtomic ==
    \A u \in Users :
        Connecting(u) = {} =>
            /\ Len(registry(u)) <= 1
            /\ groups[u] \subseteq Range(registry(u))

\* C7 as stated: a step of disconnect for a connection that is in no registry
\* entry changes no registry entry and no group membership.
C7_DisconnectUnregistered ==
    [][\A c \in Conns :
          (pc[c] \in {"open", "rejected", "closed", "leaving"}
               /\ pc'[c] # pc[c] /\ ~Registered(c))
              => (Entries' = Entries /\ groups' = groups)]_vars

\* the token is the session token of a user whose session has not expired
TokenLive(tok) ==
    \E u \in Users : session_token[u] = tok /\ session_expiry[u] > now

C10_Step ==
    \A c \in Conns :
        /\ (pc[c] = "pending" /\ pc'[c] = "authed") =>
               /\ ~TokenLive(token'[c]) => cuser'[c] = None
               /\ UNCHANGED <<active_connections, lists, groups, received>>
        /\ (cuser[c] = None /\ pc[c] # "pending" /\ pc'[c] # pc[c]) =>
               /\ pc'[c] \in {"rejected", "closed"}
               /\ UNCHANGED <<active_connections, lists, groups, received>>

C10_Unauthenticated ==
    \A c \in Conns :
        cuser[c] = None =>
            /\ pc[c] \in {"pending", "authed", "rejected", "closed"}
            /\ ~Registered(c)
            /\ \A u \in Users : c \notin groups[u]

\* C10: a connect whose token is the live session token of no user resolves to
\* no user and is closed; neither it nor the disconnect that follows changes the
\* registry, a group or what a connection received, and the connection is never
\* registered or subscribed.
C10_RejectedNoEffect ==
    [][C10_Step]_vars /\ []C10_Unauthenticated

\* user 1 is connected; a client presented the expired token of user 2, was
\* rejected and has disconnected; the entry and the group of user 1 are as before
C10_Witness ==
    \E c, d \in Conns :
        /\ pc[c] = "closed" /\ cuser[c] = None
        /\ token[c] = session_token[2] /\ session_expiry[2] <= now
        /\ pc[d] = "open" /\ cuser[d] = 1
        /\ registry(1) = <<d>> /\ groups[1] = {d}
        /\ groups[2] = {} /\ registry(2) = <<>>

C11_Step ==
    \A c \in Conns :
        (pc[c] = "leaving" /\ pc'[c] = "closed") =>
            /\ c \notin groups'[cuser[c]]
            /\ \A u \in Users : c \notin Range(Entries'[u])
            /\ (c \in Range(registry(cuser[c])) /\ Entries'[cuser[c]] = <<>>)
                   => active_connections'[cuser[c]] = None

C11_NoEmptyEntry ==
    \A u \in Users :
        (Connecting(u) = {} /\ active_connections[u] # None) => registry(u) # <<>>

\* C11: when disconnect of a connection returns, the connection is in no group
\* and in no registry entry, and if it was the last registered connection of its
\* user the key of the user is gone; whenever no connect of a user is in
\* progress, the registry holds no empty entry for the user.
C11_DisconnectCleansUp ==
    [][C11_Step]_vars /\ []C11_NoEmptyEntry

\* user 1 connected alone and disconnected: no key, no subscription
C11_Witness ==
    \E c \in Conns :
        /\ pc[c] = "closed" /\ cuser[c] = 1
        /\ \A d \in Conns \ {c} : pc[d] = "pending"
        /\ active_connections[1] = None
        /\ groups[1] = {}

\* C12: every push event a step publishes carries a notification that is in the
\* Notification store, owned by the user of the group it is published to and
\* linked to the email it carries, for original emails and auto-replies alike.
C12_NotificationBeforePush ==
    [][\A x \in Added(pushes, pushes') :
          /\ BagIn(x.notification, notifications')
          /\ CopiesIn(x, pushes') <= CopiesIn(x.notification, notifications')
          /\ x.notification.user = x.group
          /\ x.notification.related_email = x.email]_vars

\* user 2 was notified and pushed; the notification of its auto-reply failed,
\* so the auto-reply is stored and no event about it was published
C12_Witness ==
    /\ Len(emails) = 2
    /\ emails[2].is_auto_replied
    /\ Answered(1, 201)
    /\ errlog = {[email |-> 1, user |-> 2, where |-> "ar_notif"]}
    /\ PushCount(pushes, 2, 1) = 1
    /\ NotifCount(notifications, 2, 1) = 1
    /\ BagCardinality(pushes) = 1
    /\ BagCardinality(notifications) = 1

(***************************************************************************)
(* Properties of dispatch to connected and offline users (SpecPush).       *)
(***************************************************************************)
\* the errors the step printed
Logged == errlog' \ errlog

C13_Delivery ==
    /\ \A c \in Conns :
           \A n \in Added(received[c], received'[c]) : c \in groups[n.user]
    /\ \A x \in Added(pushes, pushes') :
           \A c \in groups[x.group] :
               CopiesIn(x.notification, received'[c])
                   > CopiesIn(x.notification, received[c])

C13_Offline ==
    \A m \in Users :
        (Processes(m) /\ groups[m] = {}
             /\ \A x \in Logged : x.where \notin {"notif", "push"}) =>
            /\ NotifCount(notifications', m, dispatch.email)
                   = NotifCount(notifications, m, dispatch.email) + 1
            /\ PushCount(pushes', m, dispatch.email)
                   = PushCount(pushes, m, dispatch.email) + 1
            /\ (AutoReplyOn(m) /\ Logged = {}) => Len(emails') = Len(emails) + 1
            /\ ~settings[m].exists =>
                   Logged = {[email |-> dispatch.email, user |-> m,
                              where |-> "no_settings"]}
            /\ \A c \in Conns :
                   \A n \in Added(received[c], received'[c]) : n.user # m

\* C13: an event published for a user is handed to the connections subscribed to
\* the group of that user, all of them, and to no other; the iteration for a
\* member with no subscribed connection, unless its notification or push itself
\* fails, stores the member's notification, publishes the event, runs the
\* member's auto-reply and hands nothing of the member to any connection.
C13_OfflineIsNoOp ==
    [][C13_Delivery /\ C13_Offline]_vars

\* user 1, connected, and user 3, offline, were sent an email by user 2: both
\* own a notification, nothing was printed but the missing settings of user 3,
\* the request was answered 201, user 1 auto-replied and the connection of
\* user 1 got the event of user 1 only
C13_Witness ==
    /\ Len(emails) = 2 /\ emails[2].sender = 1
    /\ emails[1].sender = 2 /\ UnionOf(1) = {1, 3}
    /\ emails[1].is_auto_replied = FALSE
    /\ Answered(1, 201)
    /\ groups[1] = {1} /\ groups[3] = {} /\ pc[1] = "open"
    /\ NotifCount(notifications, 3, 1) = 1
    /\ PushCount(pushes, 3, 1) = 1
    /\ BagCardinality(received[1]) = 1
    /\ \A n \in BagToSet(received[1]) : n.user = 1 /\ n.related_email = 1
    /\ \A x \in errlog : x.where = "no_settings"

\* C14 as stated: every stored auto-reply has as sender a member of the audience
\* of the email it answers, the subject "Re: " + the subject of that email, the
\* rich-text encoding of the sender's auto-reply message as body, exactly the
\* sender of that email as recipients, and no cc and no bcc.
C14_AutoReplyFields ==
    \A i \in 1..Len(emails) :
        emails[i].is_auto_replied =>
            /\ emails[i].reply_to \in 1..Len(emails)
            /\ emails[i].sender \in UnionOf(emails[i].reply_to)
            /\ emails[i].subject = <<"Re: ">> \o emails[emails[i].reply_to].subject
            /\ emails[i].body =
                   <<"[{\"insert\": \"",
                     settings[emails[i].sender].auto_reply_message, "\\n\"}]">>
            /\ emails[i].recipients = {emails[emails[i].reply_to].sender}
            /\ emails[i].cc = {}
            /\ emails[i].bcc = {}

(***************************************************************************)
(* Properties of the Notification store (SpecNotif).                       *)
(***************************************************************************)
\* the row without its read flag: owner, message, type and related email
Identity(n) == [n EXCEPT !.is_read = FALSE]

\* rows of ns with the identity k, read or unread
SameIdentity(ns, k) ==
    CopiesIn(k, ns) + CopiesIn([k EXCEPT !.is_read = TRUE], ns)

\* C15 as stated: no step removes a notification from the store (the program has
\* no operation that deletes an account).
C15_NeverDeleted ==
    [][\A n \in BagToSet(notifications) :
          SameIdentity(notifications', Identity(n))
              >= SameIdentity(notifications, Identity(n))]_vars

\* C16 as stated: a step that does not create a notification leaves every row
\* with its owner, message, type and related email, never turns a read row
\* unread, and changes only rows of a user who holds a live session.
C16_OnlyMarkedRead ==
    [][\A n \in BagToSet(notifications) :
          SameIdentity(notifications', Identity(n))
                  = SameIdentity(notifications, Identity(n)) =>
              /\ CopiesIn([Identity(n) EXCEPT !.is_read = TRUE], notifications')
                     >= CopiesIn([Identity(n) EXCEPT !.is_read = TRUE], notifications)
              /\ CopiesIn(n, notifications') # CopiesIn(n, notifications)
                     => Authenticated(n.user)]_vars

\* C17 as stated: a send is answered 400 for lack of addressees only when
\* recipients, cc and bcc of the request are all empty.
C17_AddresseesOptional ==
    \A i \in 1..Len(responses) :
        responses[i].status = 400 =>
            responses[i].request.recipients \cup responses[i].request.cc
                \cup responses[i].request.bcc = {}

\* the step printed an error of the auto-reply of member m
AutoReplyFailed(m) ==
    /\ Logged # {}
    /\ \A x \in Logged :
           /\ x.user = m /\ x.email = dispatch.email
           /\ x.where \in {"no_settings", "ar_email", "ar_set", "ar_notif", "ar_push"}

C18_Step ==
    \A m \in Users :
        (dispatch.active /\ BagIn(m, dispatch.todo) /\ AutoReplyFailed(m)) =>
            /\ Cardinality(Logged) = 1
            /\ Len(emails') <= Len(emails) + 1
            /\ NotifCount(notifications', m, dispatch.email)
                   = NotifCount(notifications, m, dispatch.email) + 1
            /\ PushCount(pushes', m, dispatch.email)
                   = PushCount(pushes, m, dispatch.email) + 1
            /\ dispatch'.todo = dispatch.todo (-) One(m)
            /\ dispatch'.active = (dispatch'.todo # EmptyBag)
            /\ dispatch'.active =>
                   dispatch'.email = dispatch.email /\ responses' = responses
            /\ ~dispatch'.active =>
                   responses' = Append(responses,
                       [email |-> dispatch.email, status |-> 201])

\* no member auto-replies twice to one email
C18_NoRetry ==
    \A i, j \in 1..Len(emails) :
        (emails[i].is_auto_replied /\ emails[j].is_auto_replied
             /\ emails[i].reply_to = emails[j].reply_to
             /\ emails[i].sender = emails[j].sender) => i = j

\* C18: an iteration in which the auto-reply of the member fails (no settings
\* row, or the auto-reply email, its recipients, its notification or its push
\* fails) prints one error, tries the auto-reply once, keeps the member's own
\* notification and push, and the loop goes on with the remaining members; the
\* request is answered 201 when the loop ends.
C18_AutoReplyFailureIsolated ==
    [][C18_Step]_vars /\ []C18_NoRetry /\ []C8_Done

\* the auto-reply email of user 1 failed; user 1 keeps notification and push,
\* user 2 was notified and auto-replied, the request was answered 201
C18_Witness ==
    /\ Answered(1, 201)
    /\ UnionOf(1) = {1, 2}
    /\ errlog = {[email |-> 1, user |-> 1, where |-> "ar_email"]}
    /\ NotifCount(notifications, 1, 1) = 1 /\ PushCount(pushes, 1, 1) = 1
    /\ NotifCount(notifications, 2, 1) = 1 /\ PushCount(pushes, 2, 1) = 1
    /\ Len(emails) = 2
    /\ emails[2].is_auto_replied /\ emails[2].sender = 2

C19_Step ==
    \A i \in 1..Len(emails) : Len(emails') >= i /\ emails'[i] = emails[i]

C19_Stored ==
    /\ dispatch.active =>
           /\ dispatch.email \in 1..Len(emails)
           /\ BagToSet(dispatch.todo) \subseteq UnionOf(dispatch.email)
    /\ \A i \in 1..Len(responses) :
           responses[i].email # None =>
               /\ responses[i].email \in 1..Len(emails)
               /\ emails[responses[i].email].recipients # {}

\* C19: the email is in the Email store, with its recipients, cc and bcc, while
\* it is dispatched and after the request is answered, and no step, failed or
\* not, removes or changes a stored email.
C19_EmailSurvivesDispatch ==
    [][C19_Step]_vars /\ []C19_Stored

\* the only member of the audience failed: no notification, and the email is
\* stored as sent
C19_Witness ==
    /\ Answered(1, 201)
    /\ Len(emails) = 1
    /\ emails[1].sender = 1
    /\ emails[1].recipients = {2} /\ emails[1].cc = {2} /\ emails[1].bcc = {}
    /\ errlog = {[email |-> 1, user |-> 2, where |-> "notif"]}
    /\ notifications = EmptyBag

(***************************************************************************)
(* The life of a connection (SpecWs).                                      *)
(***************************************************************************)
\* Pending until accept() or close(); Closed once the socket is gone: the
\* consumer was rejected, died in connect, or disconnect was called
Phase(c) ==
    IF pc[c] \in {"pending", "authed", "discarding", "adding"} THEN "Pending"
    ELSE IF pc[c] = "open" THEN "Open"
    ELSE "Closed"

C20_Step ==
    \A c \in Conns :
        /\ Phase(c)' # Phase(c) =>
               <<Phase(c), Phase(c)'>> \in
                   {<<"Pending", "Open">>, <<"Pending", "Closed">>, <<"Open", "Closed">>}
        /\ (c \in groups'[1] \cup groups'[2] \cup groups'[3]
                /\ c \notin groups[1] \cup groups[2] \cup groups[3]) =>
               Phase(c) = "Pending" /\ cuser[c] # None
        /\ (Registered(c)' /\ ~Registered(c)) =>
               Phase(c) = "Pending" /\ Phase(c)' = "Open" /\ cuser[c] # None

C20_ClosedIsGone ==
    \A c \in Conns :
        (Phase(c) = "Closed" /\ pc[c] # "leaving") =>
            /\ ~Registered(c)
            /\ \A u \in Users : c \notin groups[u]

\* C20 as stated: a connection goes Pending -> Open -> Closed or Pending ->
\* Closed, is subscribed and registered only on its way from Pending to Open
\* with its user resolved, and once Closed, its disconnect if any having
\* returned, is in no registry entry and in no group, so that no event published
\* later reaches it.
C20_ConnectionLifecycle ==
    [][C20_Step]_vars /\ []C20_ClosedIsGone

\* C21: every event is published to the group of the owner of the notification
\* it carries, only connections authenticated as a user are subscribed to the
\* group of that user, and every notification a connection was handed is owned
\* by the user the connection authenticated as.
C21_PushToOwnerOnly ==
    /\ \A x \in BagToSet(pushes) : x.notification.user = x.group
    /\ \A c \in Conns :
           /\ \A u \in Users : c \in groups[u] => cuser[c] = u
           /\ \A n \in BagToSet(received[c]) : n.user = cuser[c]

\* user 2 wrote to users 1 and 2; four events were published, three of them for
\* user 2, and the connection of user 1 got the one of user 1
C21_Witness ==
    /\ pc[1] = "open" /\ cuser[1] = 1
    /\ Answered(1, 201)
    /\ emails[1].sender = 2 /\ UnionOf(1) = {1, 2}
    /\ BagCardinality(pushes) = 4
    /\ PushCount(pushes, 2, 1) = 1
    /\ BagCardinality(received[1]) = 1

C22_Count ==
    \A e \in 1..Len(emails) :
        ~emails[e].is_auto_replied =>
            /\ emails[e].sender \notin UnionOf(e) =>
                   NotifCount(notifications, emails[e].sender, e) = 0
            /\ (emails[e].sender \in UnionOf(e) /\ Answered(e, 201)
                    /\ NoDeliveryFailure(e)) =>
                   NotifCount(notifications, emails[e].sender, e) = 1

C22_SelfStep ==
    \A m \in Users :
        (Processes(m) /\ m = emails[dispatch.email].sender /\ Logged = {}) =>
            /\ NotifCount(notifications', m, dispatch.email) = 1
            /\ IF AutoReplyOn(m)
               THEN AutoReplied(m)
               ELSE /\ emails' = emails
                    /\ BagCardinality(notifications')
                           = BagCardinality(notifications) + 1

\* C22: a sender outside recipients, cc and bcc never owns a notification for
\* the email; the iteration for a sender who is in the audience, when it prints
\* no error, stores exactly one notification of the email for the sender and,
\* with the sender's auto-reply enabled, exactly one auto-reply email and one
\* notification of it, and otherwise nothing more.
C22_SenderLikeAnyMember ==
    [][C22_SelfStep]_vars /\ []C22_Count

\* user 1, auto-reply enabled, wrote to themself: one notification of the email,
\* one auto-reply from and to user 1 and one notification of it
C22_Witness ==
    /\ Len(emails) = 2
    /\ emails[1].sender = 1 /\ UnionOf(1) = {1}
    /\ Answered(1, 201)
    /\ emails[2].is_auto_replied /\ emails[2].sender = 1
    /\ emails[2].recipients = {1}
    /\ NotifCount(notifications, 1, 1) = 1
    /\ NotifCount(notifications, 1, 2) = 1
    /\ BagCardinality(notifications) = 2
    /\ errlog = {}

\* C23 as stated: the loop processes the members of the audience in ascending
\* order of user id: the member an iteration handles is the smallest of those
\* left.
C23_AscendingOrder ==
    [][\A m \in Users :
          Processes(m) => \A o \in BagToSet(dispatch.todo) : m <= o]_vars

\* no connect and no disconnect is in progress
Settled == \A c \in Conns : pc[c] \in {"pending", "open", "rejected", "closed"}

\* C24 as stated: whenever every connect and disconnect that was started has
\* returned, the connections subscribed to the group of a user are exactly those
\* in the registry entry of the user.
C24_GroupEqualsRegistry ==
    Settled => \A u \in Users : groups[u] = Range(registry(u))

C25_Step ==
    \A m \in Users :
        (Processes(m)
             /\ Logged = {[email |-> dispatch.email, user |-> m, where |-> "push"]}) =>
            /\ NotifCount(notifications', m, dispatch.email)
                   = NotifCount(notifications, m, dispatch.email) + 1
            /\ BagCardinality(notifications') = BagCardinality(notifications) + 1
            /\ emails' = emails
            /\ pushes' = pushes

C25_Skipped ==
    \A x \in errlog :
        x.where = "push" =>
            /\ NotifCount(notifications, x.user, x.email) = 1
            /\ PushCount(pushes, x.user, x.email) = 0
            /\ \A i \in 1..Len(emails) :
                   ~(emails[i].is_auto_replied /\ emails[i].reply_to = x.email
                         /\ emails[i].sender = x.user)

\* C25: the iteration in which the push of the member fails keeps the member's
\* notification and does nothing else: no auto-reply email, no notification and
\* no push for the sender; the member never auto-replies to that email.
C25_PushFailureSkipsAutoReply ==
    [][C25_Step]_vars /\ []C25_Skipped

\* the push to user 2, auto-reply enabled, failed: the notification of user 2
\* is stored, there is no auto-reply and nothing was published
C25_Witness ==
    /\ Answered(1, 201)
    /\ emails[1].sender = 1 /\ UnionOf(1) = {2}
    /\ AutoReplyOn(2)
    /\ errlog = {[email |-> 1, user |-> 2, where |-> "push"]}
    /\ Len(emails) = 1
    /\ NotifCount(notifications, 2, 1) = 1
    /\ BagCardinality(notifications) = 1
    /\ pushes = EmptyBag

\* C26: every stored email flagged is_auto_replied answers a stored email that
\* is not flagged, is sent by a member of the audience of that email, has no cc
\* and no bcc and no recipient but the sender of that email; an email stored by
\* a send request is not flagged.
C26_FlagOnlyFromEngine ==
    /\ \A i \in 1..Len(emails) :
           emails[i].is_auto_replied =>
               /\ emails[i].reply_to \in 1..Len(emails)
               /\ ~emails[emails[i].reply_to].is_auto_replied
               /\ emails[i].sender \in UnionOf(emails[i].reply_to)
               /\ emails[i].cc = {} /\ emails[i].bcc = {}
               /\ emails[i].recipients \subseteq {emails[emails[i].reply_to].sender}
    /\ \A j \in 1..Len(responses) :
           responses[j].email # None => ~emails[responses[j].email].is_auto_replied
    /\ dispatch.active => ~emails[dispatch.email].is_auto_replied

\* user 2 wrote to users 1 and 2: the email they sent is not flagged, the two
\* auto-replies to it are
C26_Witness ==
    /\ Len(emails) = 3
    /\ emails[1].sender = 2 /\ UnionOf(1) = {1, 2}
    /\ ~emails[1].is_auto_replied
    /\ emails[2].is_auto_replied /\ emails[3].is_auto_replied
    /\ {emails[2].sender, emails[3].sender} = {1, 2}
    /\ emails[2].recipients = {2} /\ emails[3].recipients = {2}
    /\ Answered(1, 201)

\* the token is the live session token of a row after the step
LiveAfter(tok) ==
    \E u \in Users : session_token'[u] = tok /\ session_expiry'[u] > now'

\* the tokens that were issued and are on no row any more
Retired == {tok \in 1..(next_token - 1) : \A u \in Users : session_token[u] # tok}

\* the step is a request to the view op
Request(op) == auth_response'.op = op /\ UNCHANGED <<wsvars, now>>

C27_State ==
    /\ \A u \in Users :
           /\ Cardinality({tok \in Tokens : get_user_from_token(tok) = u}) <= 1
           /\ (session_token[u] # None /\ session_expiry[u] <= now) =>
                  get_user_from_token(session_token[u]) = None
    /\ \A tok \in Retired : get_user_from_token(tok) = None

C27_Step ==
    /\ \A u \in Users :
           (session_token'[u] # session_token[u] /\ session_token'[u] # None) =>
               /\ auth_response'.op \in {"login", "verify"}
               /\ auth_response'.token = session_token'[u]
               /\ session_token[u] # None => ~LiveAfter(session_token[u])
    /\ Request("logout") => ~LiveAfter(auth_response'.presented)
    /\ (Request("enable_2fa") /\ ~TokenLive(auth_response'.presented)) =>
           /\ auth_response'.status = 403
           /\ UNCHANGED two_factor_enabled
    /\ \A c \in Conns :
           /\ (pc[c] = "pending" /\ pc'[c] = "authed" /\ ~TokenLive(token'[c])) =>
                  cuser'[c] = None
           /\ (pc[c] = "authed" /\ cuser[c] = None /\ pc'[c] # "authed") =>
                  /\ pc'[c] = "rejected"
                  /\ UNCHANGED <<active_connections, lists, groups>>

\* C27: at most one token resolves to a user; a token that a later login or
\* 2FA verification replaced, that a logout presented, or whose expiry has
\* passed resolves to no user, and a connect or an authenticated request that
\* presents a token resolving to no user is rejected without effect.
C27_SingleSessionToken ==
    [][C27_Step]_vars /\ []C27_State

\* user 1 logged in again and holds token 3; a connect and an authenticated
\* request presenting the first token of user 1 were both rejected
C27_Witness ==
    /\ session_token[1] = 3 /\ 1 \in Retired
    /\ pc[1] = "rejected" /\ token[1] = 1
    /\ auth_response = Answer("enable_2fa", None, 1, 403, None)

C28_State ==
    /\ (auth_response.op = "verify" /\ auth_response.presented = None) =>
           auth_response.status = 400 /\ auth_response.token = None
    /\ (auth_response.op = "verify" /\ auth_response.status = 200) =>
           \A u \in Users : verification_code[u] # auth_response.presented
    /\ \A u \in Users :
           verification_code[u] # None =>
               /\ verification_code[u] < next_code
               /\ \A v \in Users \ {u} : verification_code[v] # verification_code[u]

C28_Step ==
    \A u \in Users :
        two_factor_enabled[u] =>
            /\ (Request("login") /\ auth_response'.user = u
                    /\ auth_response'.status # 400) =>
                   /\ session_token'[u] = session_token[u]
                   /\ auth_response'.token = None
                   /\ verification_code'[u] = next_code
                   /\ verification_code_expires'[u] = now + CodeMinutes
            /\ (session_token'[u] # session_token[u] /\ session_token'[u] # None) =>
                   /\ auth_response' = Answer("verify", u, verification_code[u], 200,
                                              session_token'[u])
                   /\ verification_code[u] # None
                   /\ verification_code_expires[u] > now
                   /\ verification_code'[u] = None
                   /\ verification_code_expires'[u] = None

\* C28: for a user with 2FA enabled a login with correct credentials draws a
\* new code and leaves the session token alone; the session token changes only
\* in a verification that presents the code on the row, the last one drawn for
\* the user, before its expiry, and that verification clears the code; a
\* verification without a code is answered 400 and a code that yielded a token
\* is on no row afterwards.
C28_TokenOnlyByVerification ==
    [][C28_Step]_vars /\ []C28_State

\* user 1 enabled 2FA and logged in twice; the verification presenting the
\* second code has answered with token 3 and the code is cleared
C28_Witness ==
    /\ two_factor_enabled[1]
    /\ auth_response = Answer("verify", 1, 2, 200, 3)
    /\ session_token[1] = 3
    /\ verification_code[1] = None /\ verification_code_expires[1] = None

\* C29: a user whose auto-reply is enabled has a message that is neither
\* missing nor empty, and no auto-reply email carries a missing or empty message.
C29_MessageWhenEnabled ==
    /\ \A u \in Users :
           settings[u].auto_reply_enabled =>
               settings[u].auto_reply_message \notin {NullMessage, ""}
    /\ \A i \in 1..Len(emails) :
           emails[i].is_auto_replied =>
               emails[i].body \notin {plain_text_to_quill_delta(NullMessage),
                                      plain_text_to_quill_delta("")}

\* the email a client sent that email i goes back to through reply_to
RECURSIVE SentEmail(_)
SentEmail(i) ==
    IF emails[i].is_auto_replied /\ emails[i].reply_to \in 1..(i - 1)
    THEN SentEmail(emails[i].reply_to)
    ELSE i

\* the emails the engine stored because email e was sent
Replies(e) ==
    {i \in 1..Len(emails) : emails[i].is_auto_replied /\ SentEmail(i) = e}

\* the notifications about the emails of S
NotifsAbout(S) ==
    LET N == {n \in BagToSet(notifications) : n.related_email \in S}
    IN BagCardinality([n \in N |-> notifications[n]])

\* the members of the audience of e the loop has still to handle
Remaining(e) ==
    IF dispatch.active /\ dispatch.email = e THEN BagCardinality(dispatch.todo) ELSE 0

C30_State ==
    \A e \in 1..Len(emails) :
        ~emails[e].is_auto_replied =>
            /\ Cardinality(Replies(e)) + Remaining(e) <= Cardinality(UnionOf(e))
            /\ NotifsAbout({e} \cup Replies(e)) + 2 * Remaining(e)
                   <= 2 * Cardinality(UnionOf(e))

C30_Step ==
    (dispatch.active /\ dispatch' # dispatch) =>
        IF dispatch'.active
        THEN /\ dispatch'.email = dispatch.email
             /\ BagCardinality(dispatch'.todo) = BagCardinality(dispatch.todo) - 1
        ELSE /\ BagCardinality(dispatch.todo) = 1
             /\ Len(responses') = Len(responses) + 1

\* C30: every iteration of the dispatch loop takes one member off the audience
\* that is left and the request is answered when none is left; the auto-replies
\* to an email plus the members still to handle never exceed its audience, and
\* the notifications about the email and its auto-replies never exceed twice
\* the audience, whoever has auto-reply enabled.
C30_BoundedEffect ==
    [][C30_Step]_vars /\ []C30_State

\* user 1 wrote to users 1 and 2, all with auto-reply enabled: the request is
\* answered with 1 + 2 emails and 2 * 2 notifications stored
C30_Witness ==
    /\ ~dispatch.active /\ Answered(1, 201)
    /\ emails[1].sender = 1 /\ UnionOf(1) = {1, 2}
    /\ Cardinality(Replies(1)) = 2 /\ Len(emails) = 3
    /\ NotifsAbout({1} \cup Replies(1)) = 4
    /\ BagCardinality(notifications) = 4

=============================================================================
